---- MODULE Spec2Model ----
(***************************************************************************)
(* NewsAnalyzerDashboard: the crawl / analysis / speed / cleanup tasks of  *)
(* app/tasks over the relational store of app/models.py, run by a pool of  *)
(* Celery workers.  Every task is cut at the points where it reads the     *)
(* store and where it commits, so that the interleavings of concurrent     *)
(* tasks are the interleavings of the model.                               *)
(*                                                                         *)
(* Units: similarity scores are percentages (0.75 is 75); crawler          *)
(* timestamps and the clock are days; publication timestamps and speed     *)
(* values are minutes.                                                     *)
(***************************************************************************)
EXTENDS Integers, FiniteSets, Sequences, Bags, TLC

\* ------------------------------------------------------------------ bounds
MaxItems == 2
MaxGroups == 2
MaxUrls == 2
NumWorkers == 2
MaxListing == 2
MaxLongListing == 9
JoinItems == 3

\* ------------------------------------------------------- program constants
SimilarityThreshold == 75
DuplicateThreshold == 90
FoundingScore == 100
WindowDays == 7
NewItemsDays == 1
DaysToKeep == 30
MaxRetries == 3
CrawlMaxRetries == 3
FetchRetries == 3
CountdownBase == 60
TehranOffset == 210

Workers == 1..NumWorkers
Urls == 1..MaxUrls
\* Instants the clock takes: the start, and one day past the 30 days that
\* cleanup_old_news keeps (which is also past the 7 day window).
ClockValues == {0, DaysToKeep + 1}
PubTimes == {0, 47}
Scores == {50, SimilarityThreshold, DuplicateThreshold}

\* A NULL column value (url, publication_timestamp); Python's None.
Null == 0 - 1

\* Wall clock readings, utc offsets and clock instants of the date texts, in
\* minutes; the counts of the relative phrases.
Walls == {0, 600, 1440}
Offsets == {0, TehranOffset}
ParseClocks == {0, 47, 600, 1440, 2000}
RelativeCounts == {1, 2, 47}

VARIABLES
    news_items,        \* rows of news_items: [id, url, pub, crawl, dup, text]
    next_item_id,      \* the AUTO_INCREMENT counter of news_items
    news_groups,       \* rows of news_groups: [id, main_title]
    news_group_items,  \* rows of news_group_items: [group, item, score, founding]
    analysis_results,  \* bag of analysis_results rows: [item, type, value]
    now,               \* datetime.utcnow(), in days
    queue,             \* task messages held by the broker
    worker             \* what each worker process is running

store == <<news_items, next_item_id, news_groups, news_group_items, analysis_results>>
vars == <<news_items, next_item_id, news_groups, news_group_items, analysis_results,
          now, queue, worker>>

Idle == [task |-> "idle"]

\* A task that has returned `status` and is about to be acknowledged.
Done(task, status) == [task |-> task, pc |-> "done", status |-> status]

\* ------------------------------------------------------------ store access
ItemIds == {i.id : i \in news_items}
ItemById(id) == CHOOSE i \in news_items : i.id = id
GroupIds == {g.id : g \in news_groups}

\* NewsItem.query.filter_by(url=...).first() is not None
ExistingItem(url) == \E i \in news_items : i.url = url

\* Mutant: the url column without its unique constraint.
NewsItemInsertOk_NotUnique(url) == url # Null

\* url = db.Column(db.String(500), nullable=False, unique=True)
NewsItemInsertOk(url) == url # Null /\ ~ExistingItem(url)

Init ==
    /\ news_items = {}
    /\ next_item_id = 1
    /\ news_groups = {}
    /\ news_group_items = {}
    /\ analysis_results = EmptyBag
    /\ now = 0
    /\ queue = {}
    /\ worker = [w \in Workers |-> Idle]

\* ----------------------------------------------------------------- broker
\* A message is taken from the broker.  Delivery is at least once: a message
\* that was sent stays deliverable, and a run in which it is taken once only
\* is a run in which it is not taken again.
Deliver(m) == UNCHANGED queue

AnalyzeMsg(id) == [task |-> "analyze", id |-> id]
SpeedMsg(g) == [task |-> "speed", group |-> g]
SentimentMsg(id) == [task |-> "sentiment", id |-> id]

\* The scheduling a specification allows: worker w takes a step of its task
\* while the tasks held by the other workers are all of the kinds in `kinds`.
Together(w, kinds) ==
    \A v \in Workers \ {w} : worker[v] = Idle \/ worker[v].task \in kinds

\* No task runs next to this one.
Alone == {}

\* countdown=60 * (2 ** self.request.retries), in seconds
Countdown(retries) == CountdownBase * 2 ^ retries

\* The worker acknowledges the returned task and is free again.
Return(w) ==
    /\ worker[w].task # "idle"
    /\ worker[w].pc = "done"
    /\ worker' = [worker EXCEPT ![w] = Idle]
    /\ UNCHANGED <<store, now, queue>>

\* Time passes.
Tick ==
    /\ \E t \in ClockValues : t > now /\ now' = t
    /\ UNCHANGED <<store, queue, worker>>

\* ------------------------------------------------------------ crawl_agency
\* What scrape_news_list extracts for a listing element besides its url: the
\* parsed publication time (None without a timestamp text) and whether any
\* token of title and full text survives preprocess_persian_text.
Candidates(pubs, texts) == [pub : pubs, text : texts]

\* The loop of crawl_agency over news_items: the candidates still to come and
\* saved_count, duplicate_count and error_count.
CrawlLoop(total, left, saved, duplicates, errors) ==
    [task |-> "crawl", pc |-> "check", total_scraped |-> total, left |-> left,
     saved |-> saved, duplicates |-> duplicates, errors |-> errors]

\* The dictionary crawl_agency returns after its loop (lines 78-88).
CrawlResult(c) ==
    [task |-> "crawl", pc |-> "done", status |-> "success",
     total_scraped |-> c.total_scraped, saved |-> c.saved,
     duplicates |-> c.duplicates, errors |-> c.errors]

\* scraper.scrape_news_list() returned the candidates, len(news_items) of
\* them.
CrawlStart(w, kinds, lengths) ==
    /\ Together(w, kinds)
    /\ worker[w] = Idle
    /\ \E n \in lengths :
          worker' = [worker EXCEPT ![w] = CrawlLoop(n, n, 0, 0, 0)]
    /\ UNCHANGED <<store, now, queue>>

\* The loop head and the 'existing item' query of the next candidate; after
\* the last candidate the result is returned.
CrawlCheck(w, kinds) ==
    /\ Together(w, kinds)
    /\ worker[w].task = "crawl"
    /\ worker[w].pc = "check"
    /\ IF worker[w].left = 0
       THEN worker' = [worker EXCEPT ![w] = CrawlResult(worker[w])]
       ELSE \E url \in Urls \cup {Null} :
              IF ExistingItem(url)
              THEN worker' = [worker EXCEPT ![w].left = @ - 1,
                                            ![w].duplicates = @ + 1]
              ELSE worker' = [worker EXCEPT ![w] =
                                 [worker[w] EXCEPT !.pc = "insert"] @@ [url |-> url]]
    /\ UNCHANGED <<store, now, queue>>

\* db.session.add(news_item); db.session.commit(); saved_count += 1;
\* analyze_news_item.delay(id).  An IntegrityError rolls the insert back and
\* counts a duplicate; any other exception counts an error: that of a commit
\* the database refuses for another reason, and that of a dispatch that
\* fails after the commit.  `faults` are the exceptions that may be raised.
CrawlInsert(w, kinds, pubs, texts, faults) ==
    /\ Together(w, kinds)
    /\ worker[w].task = "crawl"
    /\ worker[w].pc = "insert"
    /\ LET c == worker[w]
           next(saved, duplicates, errors) ==
               CrawlLoop(c.total_scraped, c.left - 1, c.saved + saved,
                         c.duplicates + duplicates, c.errors + errors)
       IN  \/ /\ NewsItemInsertOk(c.url)
              /\ next_item_id <= MaxItems
              /\ \E d \in Candidates(pubs, texts) :
                   news_items' = news_items \cup
                     {[id |-> next_item_id, url |-> c.url, pub |-> d.pub,
                       crawl |-> now, dup |-> FALSE, text |-> d.text]}
              /\ next_item_id' = next_item_id + 1
              /\ \/ /\ queue' = queue \cup {AnalyzeMsg(next_item_id)}
                    /\ worker' = [worker EXCEPT ![w] = next(1, 0, 0)]
                 \/ /\ "dispatch" \in faults
                    /\ UNCHANGED queue
                    /\ worker' = [worker EXCEPT ![w] = next(1, 0, 1)]
           \/ /\ ~NewsItemInsertOk(c.url)
              /\ worker' = [worker EXCEPT ![w] = next(0, 1, 0)]
              /\ UNCHANGED <<news_items, next_item_id, queue>>
           \/ /\ "commit" \in faults
              /\ worker' = [worker EXCEPT ![w] = next(0, 0, 1)]
              /\ UNCHANGED <<news_items, next_item_id, queue>>
    /\ UNCHANGED <<news_groups, news_group_items, analysis_results, now>>

\* Lines 15-35 and 90-93 of crawl_agency and GenericScraper._make_request: the
\* part of a crawl before its loop, where the specification follows it.
CrawlState(pc, retries, attempt) ==
    [task |-> "crawl", pc |-> pc, retries |-> retries, attempt |-> attempt]

\* Mutant: the retry that does not count.
CrawlRetrying_Uncounted(retries) ==
    [task |-> "crawl", pc |-> "retry", retries |-> retries,
     countdown |-> Countdown(retries)]

\* raise self.retry(countdown=60 * 2 ** retries) of crawl_agency.
CrawlRetrying(retries) ==
    IF retries < CrawlMaxRetries
    THEN [task |-> "crawl", pc |-> "retry", retries |-> retries + 1,
          countdown |-> Countdown(retries)]
    ELSE Done("crawl", "failed")

\* A worker takes a crawl_agency message.
CrawlBegin(w, kinds) ==
    /\ Together(w, kinds)
    /\ worker[w] = Idle
    /\ worker' = [worker EXCEPT ![w] = CrawlState("setup", 0, 0)]
    /\ UNCHANGED <<store, now, queue>>

\* The countdown of a crawl retry is over and the task runs again.
CrawlRetry(w, kinds) ==
    /\ Together(w, kinds)
    /\ worker[w].task = "crawl"
    /\ worker[w].pc = "retry"
    /\ worker' = [worker EXCEPT ![w] = CrawlState("setup", worker[w].retries, 0)]
    /\ UNCHANGED <<store, now, queue>>

\* Lines 15-32: the agency, its config file and the scraper.  An inactive
\* agency is skipped, a missing or invalid config is an 'error' result, and an
\* exception (the agency query, a config file that is not JSON) reaches the
\* outer except and is retried.
CrawlSetup(w, kinds) ==
    /\ Together(w, kinds)
    /\ worker[w].task = "crawl"
    /\ worker[w].pc = "setup"
    /\ \/ worker' = [worker EXCEPT ![w] = Done("crawl", "skipped")]
       \/ worker' = [worker EXCEPT ![w] = Done("crawl", "error")]
       \/ worker' = [worker EXCEPT ![w] = CrawlRetrying(worker[w].retries)]
       \/ worker' = [worker EXCEPT ![w] = CrawlState("fetch", worker[w].retries, 0)]
    /\ UNCHANGED <<store, now, queue>>

\* One pass of the loop of _make_request(base_url) inside scrape_news_list.
\* A response ends the loop and the listing is parsed.  A RequestException is
\* logged; on the last attempt it is raised again, scrape_news_list catches
\* it and returns [], and crawl_agency, with nothing to loop over, returns
\* its 'success' result.
MakeRequest(w, kinds, lengths) ==
    /\ Together(w, kinds)
    /\ worker[w].task = "crawl"
    /\ worker[w].pc = "fetch"
    /\ \/ \E n \in lengths :
             worker' = [worker EXCEPT ![w] = CrawlLoop(n, n, 0, 0, 0)]
       \/ IF worker[w].attempt = FetchRetries - 1
          THEN worker' = [worker EXCEPT ![w] = CrawlResult(CrawlLoop(0, 0, 0, 0, 0))]
          ELSE worker' = [worker EXCEPT ![w].attempt = @ + 1]
    /\ UNCHANGED <<store, now, queue>>

\* ------------------------------------------------------- analyze_news_item
\* The founding row pair of a new group: NewsGroup(main_title=title) and
\* NewsGroupItem(similarity_score=1.0).  A title is named by its item.
NewGroupId == Cardinality(news_groups) + 1

\* Mutant: the founding membership written with the grouping threshold as score.
FoundingItem_Threshold(g, id) ==
    [group |-> g, item |-> id, score |-> SimilarityThreshold, founding |-> TRUE]

FoundingItem(g, id) ==
    [group |-> g, item |-> id, score |-> FoundingScore, founding |-> TRUE]

\* Mutant: the window query without its is_duplicate filter.
RecentItems_Flagged(id) ==
    {i \in news_items : i.id # id /\ i.crawl >= now - WindowDays}

\* NewsItem.query.filter(id != item, crawler_timestamp >= week_ago,
\*                       is_duplicate == False)
RecentItems(id) ==
    {i \in news_items : i.id # id /\ i.crawl >= now - WindowDays /\ ~i.dup}

\* The candidates whose preprocessed text is not empty (texts[1:], item_ids[1:]).
UsableIds(items) == {i.id : i \in {j \in items : j.text}}

\* Mutant: the membership read that never sees a committed membership.
GroupsOfItem_None(id) == {}

\* Mutant: a match without a membership resolved to any existing group.
GroupsOfItem_Any(id) == {g.id : g \in news_groups}

\* NewsGroupItem.query.filter_by(news_item_id=...) : the groups .first() may give.
GroupsOfItem(id) == {m.group : m \in {x \in news_group_items : x.item = id}}

\* Mutant: the grouping bar lowered below the configured threshold.
Attaches_Low(s) == s >= 50

\* Mutant: the grouping threshold itself no longer attaches.
Attaches_Strict(s) == s > SimilarityThreshold

\* if max_similarity >= similarity_threshold
Attaches(s) == s >= SimilarityThreshold

\* Mutant: the flag assigned from the comparison instead of only being set.
DuplicateFlag_Assigned(old, s) == s >= DuplicateThreshold

\* Mutant: the duplicate threshold itself no longer flags.
DuplicateFlag_Strict(old, s) == IF s > DuplicateThreshold THEN TRUE ELSE old

\* if max_similarity >= 0.9: news_item.is_duplicate = True
DuplicateFlag(old, s) == IF s >= DuplicateThreshold THEN TRUE ELSE old

\* The unique constraint unique_group_item and the foreign key to news_items.
GroupItemInsertOk(g, id) ==
    /\ id \in ItemIds
    /\ ~\E m \in news_group_items : m.group = g /\ m.item = id

\* Mutant: the result without its 'error' entry.
AnalyzeResult_NoError(status, id, group, similarity, error) ==
    [task |-> "analyze", pc |-> "done", status |-> status, id |-> id,
     group_id |-> group, similarity |-> similarity, error |-> FALSE]

\* The dictionary analyze_news_item returns (or the final failure): status,
\* the item, 'group_id', 'similarity' / 'max_similarity' and 'error', Null
\* where the dictionary has no such key.
AnalyzeResult(status, id, group, similarity, error) ==
    [task |-> "analyze", pc |-> "done", status |-> status, id |-> id,
     group_id |-> group, similarity |-> similarity, error |-> error]

AnalyzeState(pc, id, retries, window, group, score) ==
    [task |-> "analyze", pc |-> pc, id |-> id, retries |-> retries,
     window |-> window, group |-> group, score |-> score]

\* raise self.retry(countdown=60 * 2 ** retries): the task is sent again with
\* retries + 1 until max_retries is used up, then it fails for good.  The
\* slot of the worker stands for the message that waits for its countdown.
Retry(id, retries) ==
    IF retries < MaxRetries
    THEN [task |-> "analyze", pc |-> "retry", id |-> id, retries |-> retries + 1,
          countdown |-> Countdown(retries)]
    ELSE AnalyzeResult("failed", id, Null, Null, TRUE)

\* Lines 45-122: the item, the early returns, the 7 day window and its texts.
Begin(id, retries) ==
    IF id \notin ItemIds THEN AnalyzeResult("not_found", id, Null, Null, FALSE)
    ELSE IF ItemById(id).dup THEN AnalyzeResult("already_duplicate", id, Null, Null, FALSE)
    ELSE IF ~ItemById(id).text THEN AnalyzeResult("no_text", id, Null, Null, FALSE)
    ELSE IF UsableIds(RecentItems(id)) = {}
         THEN AnalyzeState("new_group", id, retries, {}, Null, Null)
         ELSE AnalyzeState("match", id, retries, UsableIds(RecentItems(id)), Null, Null)

\* A worker takes an analyze_news_item message.
AnalyzeBegin(w, kinds) ==
    /\ Together(w, kinds)
    /\ worker[w] = Idle
    /\ \E m \in queue :
         /\ m.task = "analyze"
         /\ Deliver(m)
         /\ worker' = [worker EXCEPT ![w] = Begin(m.id, 0)]
    /\ UNCHANGED <<store, now>>

\* The countdown of a retry is over and the task runs again.
AnalyzeRetry(w, kinds) ==
    /\ Together(w, kinds)
    /\ worker[w].task = "analyze"
    /\ worker[w].pc = "retry"
    /\ worker' = [worker EXCEPT ![w] = Begin(worker[w].id, worker[w].retries)]
    /\ UNCHANGED <<store, now, queue>>

\* Lines 125-148: the scores, the best match and the group it is in.  The
\* vectorizer may raise; the score of the best match is an input.
AnalyzeMatch(w, kinds) ==
    /\ Together(w, kinds)
    /\ worker[w].task = "analyze"
    /\ worker[w].pc = "match"
    /\ \/ worker' = [worker EXCEPT ![w].pc = "fallback", ![w].window = {}]
       \/ \E best \in worker[w].window, s \in Scores :
            IF Attaches(s) /\ GroupsOfItem(best) # {}
            THEN \E g \in GroupsOfItem(best) :
                   worker' = [worker EXCEPT ![w].pc = "attach", ![w].window = {},
                                            ![w].group = g, ![w].score = s]
            ELSE worker' = [worker EXCEPT ![w].pc = "new_group", ![w].window = {},
                                          ![w].score = s]
    /\ UNCHANGED <<store, now, queue>>

\* Lines 70-90, 103-122, 173-193, 197-217: the new group and its founding
\* membership are committed together.  A failed commit ends in self.retry.
AnalyzeNewGroup(w, kinds) ==
    /\ Together(w, kinds)
    /\ worker[w].task = "analyze"
    /\ worker[w].pc \in {"new_group", "fallback"}
    /\ LET id == worker[w].id
           result == IF worker[w].pc = "fallback"
                     THEN AnalyzeResult("new_group_fallback", id, NewGroupId, Null, TRUE)
                     ELSE AnalyzeResult("new_group", id, NewGroupId, worker[w].score, FALSE)
       IN  IF GroupItemInsertOk(NewGroupId, id)
           THEN /\ NewGroupId <= MaxGroups
                /\ news_groups' = news_groups \cup {[id |-> NewGroupId, main_title |-> id]}
                /\ news_group_items' = news_group_items \cup {FoundingItem(NewGroupId, id)}
                /\ worker' = [worker EXCEPT ![w] = result]
           ELSE /\ worker' = [worker EXCEPT ![w] = Retry(id, worker[w].retries)]
                /\ UNCHANGED <<news_groups, news_group_items>>
    /\ UNCHANGED <<news_items, next_item_id, analysis_results, now, queue>>

\* Lines 149-171: the membership and the flag are committed together, then
\* calculate_publication_speed.delay(group).  A failed commit ends in
\* self.retry; a failed delay is caught at line 195 and founds a new group.
AnalyzeAttach(w, kinds) ==
    /\ Together(w, kinds)
    /\ worker[w].task = "analyze"
    /\ worker[w].pc = "attach"
    /\ LET id == worker[w].id
           g == worker[w].group
           s == worker[w].score
       IN  IF GroupItemInsertOk(g, id)
           THEN /\ news_group_items' = news_group_items \cup
                      {[group |-> g, item |-> id, score |-> s, founding |-> FALSE]}
                /\ news_items' = (news_items \ {ItemById(id)}) \cup
                      {[ItemById(id) EXCEPT !.dup = DuplicateFlag(@, s)]}
                /\ \/ /\ queue' = queue \cup {SpeedMsg(g)}
                      /\ worker' = [worker EXCEPT ![w] =
                                        AnalyzeResult("added_to_group", id, g, s, FALSE)]
                   \/ /\ UNCHANGED queue
                      /\ worker' = [worker EXCEPT ![w].pc = "fallback"]
           ELSE /\ worker' = [worker EXCEPT ![w] = Retry(id, worker[w].retries)]
                /\ UNCHANGED <<news_items, news_group_items, queue>>
    /\ UNCHANGED <<next_item_id, news_groups, analysis_results, now>>

\* --------------------------------------------- calculate_publication_speed
SpeedType == "speed_to_publish"
SentimentType == "sentiment"

\* AnalysisResult.query.filter_by(news_item_id=..., analysis_type=...).first()
HasResult(results, id, type) ==
    \E r \in BagToSet(results) : r.item = id /\ r.type = type

\* The join of news_items and news_group_items of the group, filtered on
\* publication_timestamp IS NOT NULL.
SpeedMembers(g) ==
    {i \in news_items :
        /\ i.pub # Null
        /\ \E m \in news_group_items : m.group = g /\ m.item = i.id}

\* The rows ORDER BY publication_timestamp ASC may put first: the order of
\* rows with equal timestamps is left to the database.
FirstItems(g) == {i \in SpeedMembers(g) : \A j \in SpeedMembers(g) : i.pub <= j.pub}

\* Mutant: the operands of the subtraction swapped.
TimeDiff_Swapped(item, first) == first.pub - item.pub

\* (news_item.publication_timestamp - first_time).total_seconds() / 60
TimeDiff(item, first) == item.pub - first.pub

SpeedRow(item, first) == [item |-> item.id, type |-> SpeedType, value |-> TimeDiff(item, first)]

\* if not existing_result
Unmetered(results, items) == {i \in items : ~HasResult(results, i.id, SpeedType)}

\* The loop over group_items[1:]: the rows the run adds to the session.
SpeedsToAdd(results, g, first) ==
    {SpeedRow(i, first) : i \in Unmetered(results, SpeedMembers(g) \ {first})}

AddRows(results, rows) == results (+) SetToBag(rows)

\* What the run returns before it writes: lines 228-229 and 239-240.
SpeedStatus(g) ==
    IF g \notin GroupIds THEN "group_not_found"
    ELSE IF Cardinality(SpeedMembers(g)) < 2 THEN "insufficient_items"
    ELSE "success"

\* Lines 227-267: the group, its timestamped members, the existing results.
SpeedRead(w, kinds) ==
    /\ Together(w, kinds)
    /\ worker[w] = Idle
    /\ \E m \in queue :
         /\ m.task = "speed"
         /\ Deliver(m)
         /\ IF SpeedStatus(m.group) # "success"
            THEN worker' = [worker EXCEPT ![w] = Done("speed", SpeedStatus(m.group))]
            ELSE \E first \in FirstItems(m.group) :
                   worker' = [worker EXCEPT ![w] =
                       [task |-> "speed", pc |-> "commit", group |-> m.group,
                        add |-> SpeedsToAdd(analysis_results, m.group, first)]]
    /\ UNCHANGED <<store, now>>

\* Line 269: db.session.commit().  A row whose news item is gone breaks the
\* foreign key; the error is caught at line 277 and nothing is written.
SpeedCommit(w, kinds) ==
    /\ Together(w, kinds)
    /\ worker[w].task = "speed"
    /\ worker[w].pc = "commit"
    /\ IF {r.item : r \in worker[w].add} \subseteq ItemIds
       THEN /\ analysis_results' = AddRows(analysis_results, worker[w].add)
            /\ worker' = [worker EXCEPT ![w] = Done("speed", "success")]
       ELSE /\ UNCHANGED analysis_results
            /\ worker' = [worker EXCEPT ![w] = Done("speed", "error")]
    /\ UNCHANGED <<news_items, next_item_id, news_groups, news_group_items, now, queue>>

\* -------------------------------------------------------- analyze_sentiment
\* The sentiment row of the item is updated, or inserted when there is none.
\* The value is a function of the item's text and is not followed here.
Sentiment(w, kinds) ==
    /\ Together(w, kinds)
    /\ worker[w] = Idle
    /\ \E m \in queue :
         /\ m.task = "sentiment"
         /\ Deliver(m)
         /\ IF m.id \notin ItemIds
            THEN /\ UNCHANGED analysis_results
                 /\ worker' = [worker EXCEPT ![w] = Done("sentiment", "not_found")]
            ELSE /\ analysis_results' =
                       IF HasResult(analysis_results, m.id, SentimentType)
                       THEN analysis_results
                       ELSE AddRows(analysis_results,
                                {[item |-> m.id, type |-> SentimentType, value |-> Null]})
                 /\ worker' = [worker EXCEPT ![w] = Done("sentiment", "success")]
    /\ UNCHANGED <<news_items, next_item_id, news_groups, news_group_items, now>>

\* -------------------------------------------------------- analyze_new_items
\* The items of the last 24 hours without any analysis_results row.
UnanalyzedItems ==
    {i \in news_items :
        /\ ~\E r \in BagToSet(analysis_results) : r.item = i.id
        /\ i.crawl >= now - NewItemsDays}

AnalyzeNewItems(w, kinds) ==
    /\ Together(w, kinds)
    /\ worker[w] = Idle
    /\ IF UnanalyzedItems = {}
       THEN /\ UNCHANGED queue
            /\ worker' = [worker EXCEPT ![w] = Done("analyze_new_items", "no_items")]
       ELSE /\ queue' = queue \cup {AnalyzeMsg(i.id) : i \in UnanalyzedItems}
                              \cup {SentimentMsg(i.id) : i \in UnanalyzedItems}
            /\ worker' = [worker EXCEPT ![w] = Done("analyze_new_items", "started")]
    /\ UNCHANGED <<store, now>>

\* --------------------------------------------------------- cleanup_old_news
\* NewsItem.query.filter(crawler_timestamp < cutoff_date)
OldItems == {i \in news_items : i.crawl < now - DaysToKeep}

\* db.session.delete(item) with cascade='all, delete-orphan' on
\* NewsItem.analysis_results and NewsItem.group_items; news_groups is not touched.
Cleanup(w, kinds) ==
    /\ Together(w, kinds)
    /\ worker[w] = Idle
    /\ news_items' = news_items \ OldItems
    /\ news_group_items' =
          {m \in news_group_items : m.item \notin {i.id : i \in OldItems}}
    /\ analysis_results' =
          [r \in {x \in BagToSet(analysis_results) : x.item \notin {i.id : i \in OldItems}}
              |-> analysis_results[r]]
    /\ worker' = [worker EXCEPT ![w] = Done("cleanup", "success")]
    /\ UNCHANGED <<next_item_id, news_groups, now, queue>>

\* ------------------------------------------------ GenericScraper._parse_date
\* A date text is told apart by what _parse_date reads of it: whether it is
\* empty, whether it is empty once stripped, whether it holds a 'T' or a '-',
\* what dateutil makes of it (a wall clock reading with or without a utc
\* offset, or a ValueError), and which relative pattern matches it.
DateString(form, wall, offset, unit, count) ==
    [form |-> form, wall |-> wall, offset |-> offset, unit |-> unit, count |-> count]

DateStrings ==
    {DateString(f, Null, Null, "none", Null) : f \in {"empty", "blank", "garbage", "dashed"}}
    \cup {DateString("absolute", wl, o, "none", Null) : wl \in Walls, o \in Offsets \cup {Null}}
    \cup {DateString("relative", Null, Null, u, c) :
              u \in {"minutes", "hours", "days"}, c \in RelativeCounts}

\* A datetime: a wall clock reading and its utc offset (Null when naive).
DateTime(wall, offset) == [wall |-> wall, offset |-> offset]

\* None where a datetime is expected.
NoDate == DateTime(Null, Null)

\* datetime.now(pytz.UTC)
NowUtc(clock) == DateTime(clock, 0)

\* parsed_date.astimezone(pytz.UTC)
AsUtc(d) == DateTime(d.wall - d.offset, 0)

\* self.tehran_tz.localize(parsed_date)
Localize(d) == DateTime(d.wall, TehranOffset)

\* The outcomes of the try block: a returned datetime, or an exception.
Returned(d) == [raised |-> FALSE, value |-> d]
Raised == [raised |-> TRUE, value |-> Null]

\* Lines 91-119, the body of the try.  dateutil raises on a text it cannot
\* read; timedelta is not among the imports of the module, so the branch of a
\* matching relative pattern raises NameError.
TryParse(ds, clock) ==
    IF ds.form \in {"absolute", "dashed"}
    THEN IF ds.form = "dashed" THEN Raised
         ELSE LET parsed_date == DateTime(ds.wall, ds.offset)
              IN  IF parsed_date.offset = Null
                  THEN Returned(AsUtc(Localize(parsed_date)))
                  ELSE Returned(AsUtc(parsed_date))
    ELSE IF ds.form = "relative" THEN Raised
    ELSE Returned(NowUtc(clock))

\* _parse_date(date_string): None for a false date_string, else the outcome
\* of the try, else (except Exception) the current time in UTC.
parse_date(ds, clock) ==
    IF ds.form = "empty" THEN NoDate
    ELSE IF TryParse(ds, clock).raised THEN NowUtc(clock)
    ELSE TryParse(ds, clock).value

\* scrape_news_list is about to call _parse_date on the text of an element.
Scraping(ds, clock) ==
    [task |-> "scrape", pc |-> "parse", date_string |-> ds, clock |-> clock]

\* publication_timestamp = self._parse_date(pub_time_text)
ParseDate(w) ==
    /\ worker[w].task = "scrape"
    /\ worker[w].pc = "parse"
    /\ worker' = [worker EXCEPT ![w] =
          [task |-> "scrape", pc |-> "done", date_string |-> worker[w].date_string,
           clock |-> worker[w].clock,
           publication_timestamp |-> parse_date(worker[w].date_string, worker[w].clock)]]
    /\ UNCHANGED <<store, now, queue>>

\* -------------------------------------------------------- scrape_news_list
\* The href of an element's link, relative to the site or absolute, by the
\* page of Urls it leads to; NoHref when the url selector finds no tag or the
\* tag has no href (_extract_attribute returns None).
NoHref == [relative |-> FALSE, page |-> Null]
Hrefs == [relative : BOOLEAN, page : Urls] \cup {NoHref}

\* urljoin(base_url, url): the absolute url of the page, whichever form the
\* href has.
UrlJoin(href) == href.page

\* What the selectors find in a listing element: whether the title selector
\* yields a text that is not empty, and the href.
ListingElements == [title : BOOLEAN, href : Hrefs]

\* A listing element whose selectors find everything.
PlainElement == [title |-> TRUE, href |-> [relative |-> TRUE, page |-> 1]]

\* The nesting of a page with n listing elements: inner[j] is the set of
\* listing elements that a tag below element j is equal to (bs4 compares tags
\* by name, attributes and contents).  Flat: no listing element lies below
\* another; Nested: element k, or a copy of it, lies below element j.
Flat(n) == [j \in 1..n |-> {}]
Nested(n, j, k) == [i \in 1..n |-> IF i = j THEN {k} ELSE {}]
Inners(n) ==
    {Flat(n)} \cup {Nested(n, p[1], p[2]) : p \in {q \in (1..n) \X (1..n) : q[1] # q[2]}}

\* What lies below element j is found by the selectors applied to j.
WellFormed(page) ==
    \A j \in 1..Len(page.elements) : \A k \in page.inner[j] :
        /\ page.elements[k].title => page.elements[j].title
        /\ page.elements[k].href # NoHref => page.elements[j].href # NoHref

\* The pages the scraper is run on: short listings of any elements, longer
\* listings of plain elements, and pages of a config without
\* news_list_selector, where the whole document is the one element.
ShortPages ==
    {p \in UNION {[selector : {TRUE}, elements : [1..n -> ListingElements], inner : Inners(n)]
                     : n \in 0..MaxListing} : WellFormed(p)}
LongPages ==
    UNION {[selector : {TRUE}, elements : {[j \in 1..n |-> PlainElement]}, inner : Inners(n)]
              : n \in (MaxListing + 1)..MaxLongListing}
WholePages == [selector : {FALSE}, elements : [1..1 -> ListingElements], inner : {Flat(1)}]
Pages == ShortPages \cup LongPages \cup WholePages

\* len(all_news) of _determine_position: soup.select(news_list_selector).
AllNews(page) == IF page.selector THEN Len(page.elements) ELSE 0

\* The loop of _determine_position: the index of the first element of
\* all_news whose find_all() holds a tag equal to `element`, or -1.
ElementIndex(page, k) ==
    LET holders == {j \in 1..AllNews(page) : k \in page.inner[j]}
    IN  IF holders = {} THEN 0 - 1
        ELSE (CHOOSE j \in holders : \A i \in holders : j <= i) - 1

\* GenericScraper._determine_position(element, soup) for the k-th element.
determine_position(page, k) ==
    IF AllNews(page) = 0 THEN "unknown"
    ELSE IF ElementIndex(page, k) = 0 - 1 THEN "unknown"
    ELSE IF ElementIndex(page, k) < 3 THEN "homepage_top"
    ELSE IF ElementIndex(page, k) < AllNews(page) \div 2 THEN "homepage_middle"
    ELSE "homepage_bottom"

\* The dictionary scrape_news_list builds for the k-th element: title, url and
\* position_on_page.  The publication time is followed by parse_date and the
\* texts by Candidates.
NewsItemDict(page, k) ==
    [title |-> page.elements[k].title,
     url |-> IF page.elements[k].href # NoHref THEN UrlJoin(page.elements[k].href) ELSE Null,
     position_on_page |-> determine_position(page, k)]

\* scrape_news_list has parsed the response and is about to loop over
\* news_elements.
ScrapingList(page) ==
    [task |-> "scrape_news_list", pc |-> "element", page |-> page, element |-> 1,
     news_items |-> << >>]

\* One pass of the loop of scrape_news_list (lines 173-217), and the return of
\* the list after the last element.  An element without title is skipped.
ScrapeElement(w) ==
    /\ worker[w].task = "scrape_news_list"
    /\ worker[w].pc = "element"
    /\ LET page == worker[w].page
           k == worker[w].element
       IN  IF k > Len(page.elements)
           THEN worker' = [worker EXCEPT ![w] =
                   [task |-> "scrape_news_list", pc |-> "done", page |-> page,
                    news_items |-> worker[w].news_items]]
           ELSE IF ~page.elements[k].title
           THEN worker' = [worker EXCEPT ![w].element = k + 1]
           ELSE worker' = [worker EXCEPT ![w].element = k + 1,
                                         ![w].news_items = Append(@, NewsItemDict(page, k))]
    /\ UNCHANGED <<store, now, queue>>

\* ---------------------------------------------------------- specifications
NoTime == {Null}
AnyTime == PubTimes \cup {Null}

\* The lengths of the listings a specification crawls, and the exceptions
\* it lets the save of a candidate raise.
OneCandidate == {1}
AnyListing == 0..MaxListing
NoFault == {}
AnyFault == {"commit", "dispatch"}

\* Concurrent crawls over the store, with the retention task and the clock.
NextCrawl ==
    \/ Tick
    \/ \E w \in Workers :
        \/ Return(w)
        \/ CrawlStart(w, {"crawl", "cleanup"}, AnyListing)
        \/ CrawlCheck(w, {"crawl", "cleanup"})
        \/ CrawlInsert(w, {"crawl", "cleanup"}, NoTime, {TRUE}, AnyFault)
        \/ Cleanup(w, {"crawl", "cleanup"})

SpecCrawl == Init /\ [][NextCrawl]_vars

\* Concurrent analyses (and cleanups) of items crawled while no analysis
\* runs, with and without usable text.
NextGroup ==
    \/ Tick
    \/ \E w \in Workers :
        \/ Return(w)
        \/ CrawlStart(w, Alone, OneCandidate)
        \/ CrawlCheck(w, Alone)
        \/ CrawlInsert(w, Alone, NoTime, BOOLEAN, NoFault)
        \/ AnalyzeBegin(w, {"analyze", "cleanup"})
        \/ AnalyzeRetry(w, {"analyze", "cleanup"})
        \/ AnalyzeMatch(w, {"analyze", "cleanup"})
        \/ AnalyzeNewGroup(w, {"analyze", "cleanup"})
        \/ AnalyzeAttach(w, {"analyze", "cleanup"})
        \/ Cleanup(w, {"analyze", "cleanup"})

SpecGroup == Init /\ [][NextGroup]_vars

\* Concurrent speed calculations (and cleanups) over groups built one
\* analysis at a time from items with and without a publication time.
NextSpeed ==
    \/ Tick
    \/ \E w \in Workers :
        \/ Return(w)
        \/ CrawlStart(w, Alone, OneCandidate)
        \/ CrawlCheck(w, Alone)
        \/ CrawlInsert(w, Alone, AnyTime, {TRUE}, NoFault)
        \/ AnalyzeBegin(w, Alone)
        \/ AnalyzeRetry(w, Alone)
        \/ AnalyzeMatch(w, Alone)
        \/ AnalyzeNewGroup(w, Alone)
        \/ AnalyzeAttach(w, Alone)
        \/ SpeedRead(w, {"speed", "cleanup"})
        \/ SpeedCommit(w, {"speed", "cleanup"})
        \/ Cleanup(w, {"speed", "cleanup"})

SpecSpeed == Init /\ [][NextSpeed]_vars

\* Every task of the application, one task at a time.
Next ==
    \/ Tick
    \/ \E w \in Workers :
        \/ Return(w)
        \/ CrawlStart(w, Alone, OneCandidate)
        \/ CrawlCheck(w, Alone)
        \/ CrawlInsert(w, Alone, PubTimes, {TRUE}, NoFault)
        \/ AnalyzeBegin(w, Alone)
        \/ AnalyzeRetry(w, Alone)
        \/ AnalyzeMatch(w, Alone)
        \/ AnalyzeNewGroup(w, Alone)
        \/ AnalyzeAttach(w, Alone)
        \/ SpeedRead(w, Alone)
        \/ SpeedCommit(w, Alone)
        \/ Sentiment(w, Alone)
        \/ AnalyzeNewItems(w, Alone)
        \/ Cleanup(w, Alone)

Spec == Init /\ [][Next]_vars

\* Crawls from the delivery of the message on, with their setup, their fetch
\* attempts and their retries, next to analyses that run one at a time.
NextRetry ==
    \E w \in Workers :
        \/ Return(w)
        \/ CrawlBegin(w, {"crawl"})
        \/ CrawlRetry(w, {"crawl"})
        \/ CrawlSetup(w, {"crawl"})
        \/ MakeRequest(w, {"crawl"}, OneCandidate)
        \/ CrawlCheck(w, {"crawl"})
        \/ CrawlInsert(w, {"crawl"}, NoTime, {TRUE}, NoFault)
        \/ AnalyzeBegin(w, Alone)
        \/ AnalyzeRetry(w, Alone)
        \/ AnalyzeMatch(w, Alone)
        \/ AnalyzeNewGroup(w, Alone)
        \/ AnalyzeAttach(w, Alone)

SpecRetry == Init /\ [][NextRetry]_vars

\* Three articles have been crawled and their analyses dispatched; the
\* analyses and the speed calculations they dispatch run one at a time.  The
\* article that was published first was crawled first, or last.
JoinPubs == {<<0, 47, 47>>, <<47, 47, 0>>}

InitJoin ==
    /\ \E pubs \in JoinPubs :
          news_items = {[id |-> k, url |-> k, pub |-> pubs[k], crawl |-> 0,
                         dup |-> FALSE, text |-> TRUE] : k \in 1..JoinItems}
    /\ next_item_id = JoinItems + 1
    /\ news_groups = {}
    /\ news_group_items = {}
    /\ analysis_results = EmptyBag
    /\ now = 0
    /\ queue = {AnalyzeMsg(k) : k \in 1..JoinItems}
    /\ worker = [w \in Workers |-> Idle]

NextJoin ==
    \E w \in Workers :
        \/ Return(w)
        \/ AnalyzeBegin(w, Alone)
        \/ AnalyzeRetry(w, Alone)
        \/ AnalyzeMatch(w, Alone)
        \/ AnalyzeNewGroup(w, Alone)
        \/ AnalyzeAttach(w, Alone)
        \/ SpeedRead(w, Alone)
        \/ SpeedCommit(w, Alone)

SpecJoin == InitJoin /\ [][NextJoin]_vars

\* One call of _parse_date on each date text at each clock instant.
InitParse ==
    /\ news_items = {}
    /\ next_item_id = 1
    /\ news_groups = {}
    /\ news_group_items = {}
    /\ analysis_results = EmptyBag
    /\ now = 0
    /\ queue = {}
    /\ \E ds \in DateStrings, clock \in ParseClocks :
          worker = [w \in Workers |-> IF w = 1 THEN Scraping(ds, clock) ELSE Idle]

NextParse ==
    \E w \in Workers :
        \/ ParseDate(w)
        \/ Return(w)

SpecParse == InitParse /\ [][NextParse]_vars

\* One run of scrape_news_list on each page.
InitScrape ==
    /\ news_items = {}
    /\ next_item_id = 1
    /\ news_groups = {}
    /\ news_group_items = {}
    /\ analysis_results = EmptyBag
    /\ now = 0
    /\ queue = {}
    /\ \E page \in Pages :
          worker = [w \in Workers |-> IF w = 1 THEN ScrapingList(page) ELSE Idle]

NextScrape ==
    \E w \in Workers :
        \/ ScrapeElement(w)
        \/ Return(w)

SpecScrape == InitScrape /\ [][NextScrape]_vars

\* ------------------------------------------------------------------ claims
At(w, task, pc) == worker[w].task = task /\ worker[w].pc = pc

MembershipsOf(id) == {m \in news_group_items : m.item = id}

\* The number of speed rows of an item, each row counted as often as it is stored.
SpeedRowsOf(id) ==
    BagCardinality([r \in {x \in BagToSet(analysis_results) :
                              x.item = id /\ x.type = SpeedType}
                       |-> analysis_results[r]])

RECURSIVE Sum(_, _)
Sum(f, S) == IF S = {} THEN 0
             ELSE LET x == CHOOSE y \in S : TRUE IN f[x] + Sum(f, S \ {x})

\* The number of speed rows held by the timestamped members of a group.
SpeedRowsOfGroup(g) ==
    Sum([id \in ItemIds |-> SpeedRowsOf(id)], {i.id : i \in SpeedMembers(g)})

\* C1: no two rows of news_items share a url, whatever the interleaving of
\* crawl_agency runs, also when two runs pass the 'existing item' check for
\* the same url before either inserts it.
UrlUnique ==
    \A i, j \in news_items : i.url = j.url => i = j

\* C1 witness: a run has passed the check for a url that another run has
\* inserted since, and is about to insert it.
UrlRaceLost ==
    \E w \in Workers : At(w, "crawl", "insert") /\ ExistingItem(worker[w].url)

\* C2: every news item has at most one news_group_items row.
AtMostOneMembership ==
    \A id \in ItemIds : Cardinality(MembershipsOf(id)) <= 1

\* C3: is_duplicate, once true, is true in every later state in which the
\* item exists.
DuplicateMonotone ==
    [][\A i \in news_items : i.dup =>
          \A j \in news_items' : j.id = i.id => j.dup]_vars

\* C3 witness: a flagged item is already a member of one group while a second
\* analysis of it, begun before the flag was set, is about to attach it to
\* another group with a score below the duplicate threshold.
FlaggedItemAttachedAgain ==
    \E w \in Workers :
        /\ At(w, "analyze", "attach")
        /\ worker[w].id \in ItemIds
        /\ ItemById(worker[w].id).dup
        /\ worker[w].score < DuplicateThreshold
        /\ GroupItemInsertOk(worker[w].group, worker[w].id)

\* C4: every news_groups row has at least one news_group_items row.
NoEmptyGroup ==
    \A g \in GroupIds : \E m \in news_group_items : m.group = g

AtMostOneSpeedMetric ==
    \A id \in ItemIds : SpeedRowsOf(id) <= 1

\* No news item has been deleted yet: the store is the outcome of crawls,
\* attachments and speed calculations only.
NothingDeleted == Cardinality(news_items) = next_item_id - 1

\* C7: after any sequence of attachments and calculate_publication_speed runs,
\* the timestamped members of a group hold at most (their number minus one)
\* speed rows, and none when the group has no timestamped member.
SpeedCountBound ==
    NothingDeleted =>
        \A g \in GroupIds :
            IF SpeedMembers(g) = {}
            THEN SpeedRowsOfGroup(g) = 0
            ELSE SpeedRowsOfGroup(g) <= Cardinality(SpeedMembers(g)) - 1

\* C8: a run of calculate_publication_speed followed at once by a second run
\* on the same group adds nothing the second time, and a group with fewer
\* than two timestamped members gets 'insufficient_items' and no row.
SpeedIdempotent ==
    \A g \in GroupIds :
        IF Cardinality(SpeedMembers(g)) < 2
        THEN SpeedStatus(g) = "insufficient_items"
        ELSE \A first \in FirstItems(g), again \in FirstItems(g) :
               SpeedsToAdd(AddRows(analysis_results,
                                   SpeedsToAdd(analysis_results, g, first)),
                           g, again) = {}

\* The earliest publication time of the timestamped members of a group.
EarliestPub(g) ==
    CHOOSE t \in {i.pub : i \in SpeedMembers(g)} :
        \A i \in SpeedMembers(g) : t <= i.pub

\* C9: the rows a run computes hold, for each member, the minutes from the
\* earliest publication time of the group's timestamped members to its own;
\* no value is negative, a member with the earliest time gets no row, and the
\* commit stores exactly these rows.
SpeedValues ==
    [][\A w \in Workers :
          /\ (worker[w] = Idle /\ At(w, "speed", "commit")')
               => LET g == worker'[w].group
                      add == worker'[w].add
                  IN  /\ \A r \in add :
                            /\ r.item \in {i.id : i \in SpeedMembers(g)}
                            /\ r.value = ItemById(r.item).pub - EarliestPub(g)
                            /\ r.value >= 0
                      /\ \E e \in SpeedMembers(g) :
                            /\ e.pub = EarliestPub(g)
                            /\ e.id \notin {r.item : r \in add}
          /\ (At(w, "speed", "commit") /\ At(w, "speed", "done")')
               => analysis_results' =
                     IF worker'[w].status = "success"
                     THEN AddRows(analysis_results, worker[w].add)
                     ELSE analysis_results
      ]_vars

\* C9 witness: members published at 0 and at 47 minutes, and the row of the
\* second one holds 47.
SpeedOf47 ==
    \E g \in GroupIds : \E a, b \in SpeedMembers(g) :
        /\ a.pub = 0
        /\ b.pub = 47
        /\ [item |-> b.id, type |-> SpeedType, value |-> 47] \in BagToSet(analysis_results)

\* C10: for every date text, the empty one included, _parse_date returns an
\* instant in UTC; for a text that neither the absolute nor the relative path
\* turns into a time it is the current instant.
ParseTotal ==
    \A w \in Workers :
        At(w, "scrape", "done") =>
            LET ds == worker[w].date_string
                t == worker[w].publication_timestamp
            IN  /\ t # NoDate
                /\ t.offset = 0
                /\ ds.form \notin {"absolute", "relative"} => t = NowUtc(worker[w].clock)

\* The minutes of one unit of a relative phrase: timedelta(minutes=1),
\* timedelta(hours=1), timedelta(days=1).
UnitMinutes(unit) ==
    IF unit = "minutes" THEN 1 ELSE IF unit = "hours" THEN 60 ELSE 1440

\* C11: a relative date text '<N> minutes/hours/days ago' is normalized to
\* the current time in the source timezone minus N units, converted to UTC
\* (2 hours before 12:00+03:30 is 06:30Z), and not to the current time itself.
RelativeParsed ==
    \A w \in Workers :
        (At(w, "scrape", "done") /\ worker[w].date_string.form = "relative") =>
            LET ds == worker[w].date_string
                now_tehran == DateTime(worker[w].clock + TehranOffset, TehranOffset)
            IN  worker[w].publication_timestamp =
                    AsUtc(DateTime(now_tehran.wall - ds.count * UnitMinutes(ds.unit),
                                   TehranOffset))

\* Worker w takes the step.
Steps(w) == worker'[w] # worker[w]

\* The result a worker holds in the next state.
Returns(w, status) ==
    At(w, "analyze", "done")' /\ worker'[w].status = status

\* The membership that attaches item id to group g with score sc.
Attached(g, id, sc) == [group |-> g, item |-> id, score |-> sc, founding |-> FALSE]

BeginsAt(w, pc) ==
    /\ worker[w] = Idle \/ At(w, "analyze", "retry")
    /\ At(w, "analyze", pc)'

\* C14: when the 7 day window is empty or none of its items has usable text,
\* the analysis of an article with usable text creates exactly one new group
\* whose main title is the article's title, with a founding membership of
\* score 1.0, and returns new_group without a similarity score.
EmptyWindowFounds ==
    [][\A w \in Workers :
          /\ BeginsAt(w, "new_group")
                => /\ UsableIds(RecentItems(worker'[w].id)) = {}
                   /\ worker'[w].score = Null
          /\ BeginsAt(w, "match")
                => UsableIds(RecentItems(worker'[w].id)) # {}
          /\ (At(w, "analyze", "new_group") /\ Steps(w)
                 /\ worker[w].score = Null /\ worker[w].id \in ItemIds)
                => LET id == worker[w].id
                       g == worker'[w].group_id
                   IN  /\ Returns(w, "new_group")
                       /\ worker'[w].similarity = Null
                       /\ g \notin GroupIds
                       /\ news_groups' = news_groups \cup {[id |-> g, main_title |-> id]}
                       /\ news_group_items' = news_group_items \cup
                             {[group |-> g, item |-> id, score |-> FoundingScore,
                               founding |-> TRUE]}
      ]_vars

\* C14 witness: an analysis has returned new_group without a score for an
\* article whose window holds an item, none of them with usable text.
FoundedBesideUnusableItem ==
    \E w \in Workers :
        /\ At(w, "analyze", "done")
        /\ worker[w].status = "new_group"
        /\ worker[w].similarity = Null
        /\ RecentItems(worker[w].id) # {}
        /\ UsableIds(RecentItems(worker[w].id)) = {}
        /\ FoundingItem(worker[w].group_id, worker[w].id) \in news_group_items

\* C15: an analysis of a stored, unflagged article whose own text is empty
\* after preprocessing ends in the new_group state, and the article is the
\* founding member of a group.
UnusableTextFounds ==
    \A w \in Workers :
        (/\ At(w, "analyze", "done")
         /\ worker[w].id \in ItemIds
         /\ ~ItemById(worker[w].id).dup
         /\ ~ItemById(worker[w].id).text)
            => /\ worker[w].status = "new_group"
               /\ \E m \in MembershipsOf(worker[w].id) : m.founding

\* C16: when the similarity computation raises, the run neither fails nor
\* retries: without touching the store it goes on to create exactly one new
\* group with a founding membership of score 1.0 for the article, and returns
\* new_group_fallback with the error recorded.
FallbackFounds ==
    [][\A w \in Workers :
          /\ (At(w, "analyze", "match") /\ At(w, "analyze", "fallback")')
                => UNCHANGED <<store, queue>>
          /\ (At(w, "analyze", "fallback") /\ Steps(w) /\ worker[w].id \in ItemIds)
                => LET id == worker[w].id
                       g == worker'[w].group_id
                   IN  /\ Returns(w, "new_group_fallback")
                       /\ worker'[w].error
                       /\ g \notin GroupIds
                       /\ news_groups' = news_groups \cup {[id |-> g, main_title |-> id]}
                       /\ news_group_items' = news_group_items \cup
                             {[group |-> g, item |-> id, score |-> FoundingScore,
                               founding |-> TRUE]}
      ]_vars

\* C16 witness: a run whose similarity computation failed has returned
\* new_group_fallback, and the founding membership it reports is the only
\* membership of the article.
FallbackFounded ==
    \E w \in Workers :
        /\ At(w, "analyze", "done")
        /\ worker[w].status = "new_group_fallback"
        /\ worker[w].error
        /\ MembershipsOf(worker[w].id) = {FoundingItem(worker[w].group_id, worker[w].id)}

\* C17: when the best match reaches the grouping threshold but has no
\* membership, the run does not fail and attaches nothing: it creates a new
\* group with a founding membership of score 1.0 for the article and leaves
\* every duplicate flag as it was, also for a score >= 0.90.
UngroupedMatchFounds ==
    [][\A w \in Workers :
          /\ (At(w, "analyze", "match") /\ Steps(w)
                 /\ \A best \in worker[w].window : MembershipsOf(best) = {})
                => /\ worker'[w].task = "analyze"
                   /\ worker'[w].pc \in {"new_group", "fallback"}
                   /\ UNCHANGED <<store, queue>>
          /\ (At(w, "analyze", "new_group") /\ Steps(w)
                 /\ worker[w].score # Null /\ worker[w].score >= SimilarityThreshold
                 /\ worker[w].id \in ItemIds)
                => LET id == worker[w].id
                       g == worker'[w].group_id
                   IN  /\ Returns(w, "new_group")
                       /\ g \notin GroupIds
                       /\ news_group_items' = news_group_items \cup
                             {[group |-> g, item |-> id, score |-> FoundingScore,
                               founding |-> TRUE]}
                       /\ news_items' = news_items
      ]_vars

\* C17 witness: a run whose best match scored 0.90 has founded a group for
\* its article, which is not flagged.
FoundedBesideUngroupedMatch ==
    \E w \in Workers :
        /\ At(w, "analyze", "done")
        /\ worker[w].status = "new_group"
        /\ worker[w].similarity = DuplicateThreshold
        /\ worker[w].id \in ItemIds
        /\ ~ItemById(worker[w].id).dup
        /\ FoundingItem(worker[w].group_id, worker[w].id) \in news_group_items

\* C18: every step of analyze_news_item that adds a membership to a group,
\* the founding one of a new group as well as an attaching one, dispatches
\* calculate_publication_speed for that group.
SpeedDispatchedOnMutation ==
    [][\A m \in news_group_items' \ news_group_items :
          SpeedMsg(m.group) \in queue']_vars

\* C19: the listing page is requested at most 3 times, a response ends the
\* attempts, and a crawl whose every attempt failed does not return 'success':
\* it fails or is retried.
FetchFailureSurfaces ==
    [][\A w \in Workers :
          At(w, "crawl", "fetch") =>
             /\ worker[w].attempt < FetchRetries
             /\ Steps(w) =>
                   \/ At(w, "crawl", "check")'
                   \/ At(w, "crawl", "fetch")' /\ worker'[w].attempt = worker[w].attempt + 1
                   \/ At(w, "crawl", "retry")'
                   \/ At(w, "crawl", "done")' /\ worker'[w].status # "success"
      ]_vars

\* C20: a run of analyze_news_item or crawl_agency that raises is retried at
\* most 3 times, retry k (k = 0, 1, 2) with a countdown of 60 * 2^k seconds;
\* the run that raises after the third retry ends as a final failure, and
\* only such a run does.
RetryBackoff ==
    [][\A w \in Workers : \A task \in {"analyze", "crawl"} :
          /\ (Steps(w) /\ At(w, task, "retry")')
                => LET k == worker[w].retries
                   IN  /\ k \in 0..2
                       /\ worker'[w].retries = k + 1
                       /\ worker'[w].countdown = 60 * 2 ^ k
          /\ (Steps(w) /\ At(w, task, "done")' /\ worker'[w].status = "failed")
                => worker[w].retries = 3
          /\ (Steps(w) /\ At(w, task, "retry") /\ worker'[w].pc # "done")
                => worker'[w].retries = worker[w].retries
      ]_vars

\* C20 witness: an analysis waits for its third retry with a countdown of 240
\* seconds while the article it fails on is stored.
ThirdRetryPending ==
    \E w \in Workers :
        /\ At(w, "analyze", "retry")
        /\ worker[w].retries = 3
        /\ worker[w].countdown = 240
        /\ worker[w].id \in ItemIds

\* C21: every candidate scrape_news_list has collected has a title and a
\* resolved url: no listing element without a title and none without a url
\* becomes a candidate.
CandidatesComplete ==
    \A w \in Workers :
        worker[w].task = "scrape_news_list" =>
            \A c \in 1..Len(worker[w].news_items) :
                /\ worker[w].news_items[c].title
                /\ worker[w].news_items[c].url # Null

\* C22: analyze_news_item is dispatched once per article: the crawl that
\* stores an article dispatches its analysis, and analyze_new_items
\* dispatches no analysis that was dispatched before.
AnalysisDispatchedOnce ==
    [][/\ \A id \in ItemIds' \ ItemIds : AnalyzeMsg(id) \in queue' \ queue
       /\ \A w \in Workers :
            (Steps(w) /\ At(w, "analyze_new_items", "done")'
                      /\ worker'[w].status = "started")
               => \A i \in UnanalyzedItems : AnalyzeMsg(i.id) \notin queue
      ]_vars

\* C23: a run of analyze_news_item that starts on an unflagged article with a
\* membership changes neither news_groups nor news_group_items, and a crawl
\* stores and dispatches nothing for a url that is already stored.
ReinvocationIdempotent ==
    [][\A w \in Workers :
          /\ (/\ Steps(w)
              /\ worker[w].task = "analyze"
              /\ worker[w].pc \in {"new_group", "attach"}
              /\ worker[w].id \in ItemIds
              /\ MembershipsOf(worker[w].id) # {}
              /\ ~ItemById(worker[w].id).dup)
                => UNCHANGED <<news_groups, news_group_items>>
          /\ (Steps(w) /\ worker[w].task = "crawl")
                => /\ \A i \in news_items' :
                         i.id \notin ItemIds => ~ExistingItem(i.url)
                   /\ queue' \ queue \subseteq
                         {AnalyzeMsg(i.id) : i \in {j \in news_items' : j.id \notin ItemIds}}
      ]_vars

\* C24: the window a run of analyze_news_item reads holds stored articles
\* only, and neither the article that is analyzed, nor an article whose
\* duplicate flag is set, nor one crawled more than 7 days before; so the
\* best match, which is taken from the window, is none of these.
WindowExcludes ==
    [][\A w \in Workers :
          (/\ Steps(w)
           /\ worker[w] = Idle \/ At(w, "analyze", "retry")
           /\ worker'[w].task = "analyze"
           /\ worker'[w].pc \in {"match", "new_group"})
             => /\ worker'[w].window \subseteq ItemIds
                /\ \A i \in news_items :
                      (i.id = worker'[w].id \/ i.dup \/ i.crawl < now - WindowDays)
                         => i.id \notin worker'[w].window
      ]_vars

\* C24 witness: an analysis has read its window while the only other article,
\* recent and with usable text, is flagged: the window is empty.
FlaggedOutsideWindow ==
    \E w \in Workers :
        /\ At(w, "analyze", "new_group")
        /\ worker[w].window = {}
        /\ worker[w].id \in ItemIds
        /\ \A v \in Workers \ {w} : worker[v] = Idle
        /\ \E i \in news_items :
              /\ i.id # worker[w].id
              /\ i.dup
              /\ i.text
              /\ i.crawl >= now - WindowDays

\* C25: of two articles that score at or above the grouping threshold against
\* each other, the one whose run reads the other's membership after it was
\* committed is attached to the other's group, and the one whose run reads
\* before that commit founds its own group; so two runs that both read before
\* either commits end in two groups.
SequentialAttach ==
    [][\A w \in Workers :
          /\ At(w, "analyze", "match") => \A a \in worker[w].window :
                (/\ Steps(w)
                 /\ worker[w].window = {a}
                 /\ worker'[w].pc # "fallback"
                 /\ worker'[w].score >= SimilarityThreshold)
                   => IF MembershipsOf(a) # {}
                      THEN /\ At(w, "analyze", "attach")'
                           /\ \E m \in MembershipsOf(a) : worker'[w].group = m.group
                      ELSE At(w, "analyze", "new_group")'
          /\ (At(w, "analyze", "attach") /\ Steps(w)
                 /\ GroupItemInsertOk(worker[w].group, worker[w].id))
                => Attached(worker[w].group, worker[w].id, worker[w].score)
                      \in news_group_items'
      ]_vars

\* C25 witness: both workers hold a new_group result with a score at or above
\* the threshold, for two different articles, and each article is the
\* founder of its own group and in no other.
RaceFoundsTwoGroups ==
    /\ \A w \in Workers :
          /\ At(w, "analyze", "done")
          /\ worker[w].status = "new_group"
          /\ worker[w].similarity >= SimilarityThreshold
          /\ worker[w].id \in ItemIds
          /\ MembershipsOf(worker[w].id) = {FoundingItem(worker[w].group_id, worker[w].id)}
    /\ \A v, w \in Workers :
          v # w => worker[v].id # worker[w].id /\ worker[v].group_id # worker[w].group_id

\* C26: a run whose speed dispatch failed after its attaching membership was
\* committed creates no group and no membership afterwards and leaves the
\* duplicate flags as the commit set them.
DispatchFailureKeepsMembership ==
    [][\A w \in Workers :
          (/\ At(w, "analyze", "fallback")
           /\ worker[w].group # Null
           /\ Steps(w))
             => /\ news_groups' = news_groups
                /\ news_group_items' = news_group_items
                /\ news_items' = news_items
      ]_vars

\* C27: when a run of calculate_publication_speed has committed for a group
\* whose timestamped members are each in that group only, every speed row of
\* these members holds the minutes from the earliest publication time among
\* them to the member's own, also when a member with an earlier time has
\* joined since the row was written.
SpeedRowsCurrent ==
    [][\A w \in Workers :
          (/\ At(w, "speed", "commit")
           /\ At(w, "speed", "done")'
           /\ worker'[w].status = "success"
           /\ \A i \in SpeedMembers(worker[w].group) :
                 Cardinality(MembershipsOf(i.id)) = 1)
             => \A r \in BagToSet(analysis_results') :
                   (/\ r.type = SpeedType
                    /\ r.item \in {i.id : i \in SpeedMembers(worker[w].group)})
                      => r.value = ItemById(r.item).pub - EarliestPub(worker[w].group)
      ]_vars

\* The position the index i of n listing elements stands for: the first three
\* are top, the first half of the indices from 3 on is middle, the rest is
\* bottom; the central index of a remainder of odd length may be either.
OrdinalPositions(i, n) ==
    IF i < 3 THEN {"homepage_top"}
    ELSE IF 2 * (i - 3) + 1 < n - 3 THEN {"homepage_middle"}
    ELSE IF 2 * (i - 3) + 1 = n - 3 THEN {"homepage_middle", "homepage_bottom"}
    ELSE {"homepage_bottom"}

\* C28: the candidate made from the listing element at index i of n gets the
\* position that index stands for; a candidate that is a listing element is
\* never 'unknown'.
PositionByIndex ==
    [][\A w \in Workers :
          (/\ At(w, "scrape_news_list", "element")
           /\ At(w, "scrape_news_list", "element")'
           /\ worker[w].page.selector
           /\ Len(worker'[w].news_items) > Len(worker[w].news_items))
             => worker'[w].news_items[Len(worker'[w].news_items)].position_on_page
                   \in OrdinalPositions(worker[w].element - 1, Len(worker[w].page.elements))
      ]_vars

\* C29: in the result of every crawl_agency run that returns 'success',
\* saved + duplicates + errors is total_scraped: every candidate was counted
\* once.
CountersAddUp ==
    \A w \in Workers :
        (At(w, "crawl", "done") /\ worker[w].status = "success")
           => worker[w].saved + worker[w].duplicates + worker[w].errors
                 = worker[w].total_scraped

\* Every flagged article has an attaching membership of score >= 0.90.
FlaggedHasAttachment ==
    \A i \in news_items :
        i.dup => \E m \in MembershipsOf(i.id) :
                    ~m.founding /\ m.score >= DuplicateThreshold

\* C30: a flagged article has a membership of score >= 0.90 in a group it did
\* not found, and it is not the founding member of any group.
FlaggedNeverFounder ==
    /\ FlaggedHasAttachment
    /\ \A i \in news_items :
          i.dup => \A m \in MembershipsOf(i.id) : ~m.founding
====
